---- MODULE Spec2Model ----
(***************************************************************************)
(* A model of geoip2.go: the Api client value, its three constructors and  *)
(* the fetch pipeline behind Country, City and Insights.                   *)
(*                                                                         *)
(* Clients live in a heap (a sequence of Api records, addressed by index), *)
(* so that "derive without mutating base" is something a step can break.   *)
(* Every lookup call has its own frame (fetch's local variables).  fetch   *)
(* is cut at the points where control leaves it or branches: request       *)
(* construction, the transport invocation, the status test, the body read  *)
(* and the two decodes.  A response body is a sequence of JSON tokens that *)
(* the decoder scans and unmarshals the way encoding/json does.            *)
(***************************************************************************)
EXTENDS Integers, Sequences, FiniteSets, TLC

VARIABLES heap, call

vars == <<heap, call>>

(***************************************************************************)
(* Bounds                                                                  *)
(***************************************************************************)
MaxMembers == 2   \* members of a JSON object in a response body
MaxHeap    == 4   \* Api values allocated in the derivation specification
NCalls     == 2   \* concurrent lookup calls in the concurrency specification

(***************************************************************************)
(* Values                                                                  *)
(***************************************************************************)
NilErr == [type |-> "nil"]

NilFunc == [kind |-> "nil", do |-> ""]

NilCtx == "nil"

Background == "Background"

CallerCtx == "ctx1"

Ctxs == {NilCtx, CallerCtx}

DefaultClient == "http.DefaultClient"

HTTPClients == {DefaultClient, "client1"}

CtxFuncs == {"f1"}

CountryPrefix == "https://geoip.maxmind.com/geoip/v2.1/country/"

CityPrefix == "https://geoip.maxmind.com/geoip/v2.1/city/"

InsightsPrefix == "https://geoip.maxmind.com/geoip/v2.1/insights/"

Prefixes == {CountryPrefix, CityPrefix, InsightsPrefix}

\* ipAddress is not validated by the library; "%zz" is an invalid URL escape.
InvalidEscapes == {"%zz"}

IPs == {"1.2.3.4"} \cup InvalidEscapes

TransportErrs == {"dial tcp: connection refused", "context canceled"}

Statuses == {200, 399, 400, 404, 500, 599, 600}

(***************************************************************************)
(* JSON bodies: tokens, lexing, the raw text                               *)
(***************************************************************************)
MsgStr == "\"message\":\"IP not found\""

MsgNum == "\"message\":7"

StatusNum == "\"status\":404"

CountryStr == "\"country\":\"US\""

GeoStr == "\"geoname_id\":\"x\""

Junk == "internal failure"

Members == {MsgStr, MsgNum, StatusNum, CountryStr, GeoStr}

Lex(tok) ==
    CASE tok = "{"        -> [kind |-> "begin",  key |-> "", type |-> "", val |-> 0]
      [] tok = "}"        -> [kind |-> "end",    key |-> "", type |-> "", val |-> 0]
      [] tok = MsgStr     -> [kind |-> "member", key |-> "message", type |-> "string", val |-> "IP not found"]
      [] tok = MsgNum     -> [kind |-> "member", key |-> "message", type |-> "number", val |-> 7]
      [] tok = StatusNum  -> [kind |-> "member", key |-> "status", type |-> "number", val |-> 404]
      [] tok = CountryStr -> [kind |-> "member", key |-> "country", type |-> "string", val |-> "US"]
      [] tok = GeoStr     -> [kind |-> "member", key |-> "geoname_id", type |-> "string", val |-> "x"]
      [] OTHER            -> [kind |-> "text",   key |-> "", type |-> "", val |-> 0]

IsMember(tok) == Lex(tok).kind = "member"

\* string(buf): the bytes of the body as text; members are comma-separated.
RECURSIVE Text(_)
Text(toks) ==
    IF toks = <<>> THEN ""
    ELSE IF Len(toks) >= 2 /\ IsMember(toks[1]) /\ IsMember(toks[2])
         THEN toks[1] \o "," \o Text(Tail(toks))
         ELSE toks[1] \o Text(Tail(toks))

RECURSIVE SeqsUpTo(_, _)
SeqsUpTo(S, n) ==
    IF n = 0 THEN {<<>>}
    ELSE LET shorter == SeqsUpTo(S, n - 1)
         IN  shorter \cup {Append(s, x) : s \in shorter, x \in S}

Object(ms) == <<"{">> \o ms \o <<"}">>

\* Bodies a server can send: an object, a truncated object, an object
\* followed by more bytes, plain text, nothing.
Bodies ==
    {<<>>, <<Junk>>}
    \cup UNION {{Object(ms), <<"{">> \o ms, Object(ms) \o <<Junk>>} :
                    ms \in SeqsUpTo(Members, MaxMembers)}

SmallBodies ==
    {Object(<<MsgStr>>), Object(<<CountryStr>>), <<Junk>>}

(***************************************************************************)
(* encoding/json, as fetch uses it                                         *)
(***************************************************************************)
JSONErr(kind) == [type |-> "json", kind |-> kind]

IOErr == [type |-> "io", msg |-> "unexpected read failure"]

\* err.Error(), as %v formats it
ErrText(err) ==
    CASE err.type = "json" -> "json: " \o err.kind
      [] err.type = "io"   -> err.msg
      [] OTHER             -> ""

\* The decoder first reads one complete JSON value, and reports a syntax
\* error, or the end of the input, before it stores anything.
Scan(toks) ==
    IF toks = <<>> THEN [err |-> JSONErr("EOF"), members |-> <<>>]
    ELSE IF Lex(toks[1]).kind # "begin"
    THEN [err |-> JSONErr("SyntaxError"), members |-> <<>>]
    ELSE LET rest == {j \in 2..Len(toks) : ~IsMember(toks[j])}
         IN  IF rest = {}
             THEN [err |-> JSONErr("UnexpectedEOF"), members |-> <<>>]
             ELSE LET j == CHOOSE i \in rest : \A k \in rest : i <= k
                  IN  IF Lex(toks[j]).kind = "end"
                      THEN [err |-> NilErr, members |-> SubSeq(toks, 2, j - 1)]
                      ELSE [err |-> JSONErr("SyntaxError"), members |-> <<>>]

\* Unmarshal stores every member whose key the struct has and whose value
\* fits the field, skips the others, and reports the first misfit.
RECURSIVE Unmarshal(_, _, _, _)
Unmarshal(schema, v, ms, err) ==
    IF ms = <<>> THEN [v |-> v, err |-> err]
    ELSE LET m == Lex(Head(ms))
         IN  IF m.key \notin DOMAIN schema
             THEN Unmarshal(schema, v, Tail(ms), err)
             ELSE IF m.type = schema[m.key].type
             THEN Unmarshal(schema, [v EXCEPT ![schema[m.key].field] = m.val], Tail(ms), err)
             ELSE Unmarshal(schema, v, Tail(ms),
                            IF err = NilErr THEN JSONErr("UnmarshalTypeError") ELSE err)

\* json.NewDecoder(r).Decode(&v) on bytes already in memory
Decode(schema, v, toks) ==
    LET s == Scan(toks)
    IN  IF s.err # NilErr THEN [v |-> v, err |-> s.err]
        ELSE Unmarshal(schema, v, s.members, NilErr)

\* json.NewDecoder(resp.Body).Decode(&v): the stream may fail to read
DecodeStream(schema, v, body) ==
    IF body.readErr THEN [v |-> v, err |-> IOErr]
    ELSE Decode(schema, v, body.tokens)

(***************************************************************************)
(* Response and Error (declared outside geoip2.go)                         *)
(***************************************************************************)
EmptyResponse == [Country |-> "", GeoNameId |-> 0]

ResponseSchema ==
    ("country" :> [field |-> "Country", type |-> "string"])
    @@ ("geoname_id" :> [field |-> "GeoNameId", type |-> "number"])

ErrorSchema ==
    ("status" :> [field |-> "Code", type |-> "number"])
    @@ ("message" :> [field |-> "Err", type |-> "string"])

\* An Error built without the HTTP status.
NewErrorNoStatus(status) == [type |-> "Error", HTTPStatus |-> 0, Code |-> 0, Err |-> ""]

\* Error{HTTPStatus: status}
NewError(status) == [type |-> "Error", HTTPStatus |-> status, Code |-> 0, Err |-> ""]

(***************************************************************************)
(* net/http, as fetch uses it                                              *)
(***************************************************************************)
NoReq == [method |-> "", url |-> "", user |-> "", pass |-> "", ctx |-> ""]

NoResp == [StatusCode |-> 0, Body |-> [tokens |-> <<>>, readErr |-> FALSE]]

URLErr(url) == [type |-> "url", msg |-> "parse " \o url \o ": invalid URL escape"]

\* http.NewRequest: the URL is parsed; the request carries the background
\* context.
NewRequest(method, url) ==
    IF \E p \in Prefixes, e \in InvalidEscapes : url = p \o e
    THEN [req |-> NoReq, err |-> URLErr(url)]
    ELSE [req |-> [method |-> method, url |-> url, user |-> "", pass |-> "",
                   ctx |-> Background],
          err |-> NilErr]

SetBasicAuth(req, user, pass) == [req EXCEPT !.user = user, !.pass = pass]

\* What a transport function can hand back: a failure, or a response.
Outcomes(bodies) ==
    {[resp |-> NoResp, err |-> [type |-> "transport", msg |-> e]] : e \in TransportErrs}
    \cup {[resp |-> [StatusCode |-> s, Body |-> [tokens |-> b, readErr |-> r]],
           err |-> NilErr] : s \in Statuses, b \in bodies, r \in BOOLEAN}

SmallOutcomes ==
    {[resp |-> NoResp, err |-> [type |-> "transport", msg |-> "context canceled"]]}
    \cup {[resp |-> [StatusCode |-> s, Body |-> [tokens |-> b, readErr |-> FALSE]],
           err |-> NilErr] : s \in {200, 404}, b \in SmallBodies}

(***************************************************************************)
(* Api and its constructors                                                *)
(***************************************************************************)
\* wrap(client.Do): a transport that calls doFunc(req) and is handed no
\* context.
wrap(client) == [kind |-> "wrap", do |-> client]

CtxFunc(f) == [kind |-> "func", do |-> f]

\* The context the function that executes the request gets to observe:
\* ctxFunc(ctx, req) sees ctx; the closure of wrap calls doFunc(req), which
\* sees only the request (and the context the request carries).
Observed(doFunc, ctx, req) ==
    IF doFunc.kind = "wrap" THEN req.ctx ELSE ctx

\* A WithClientFunc that sets the transport on api itself.
WithClientFuncInPlace(h, api, ctxFunc) == [h EXCEPT ![api].doFunc = ctxFunc]

\* WithClientFunc allocates a new Api holding ctxFunc and api's credentials.
WithClientFunc(h, api, ctxFunc) ==
    Append(h, [doFunc |-> ctxFunc, userId |-> h[api].userId,
               licenseKey |-> h[api].licenseKey])

WithClient(h, api, client) == WithClientFunc(h, api, wrap(client))

\* New allocates the Api with the credentials and no transport, and returns
\* the one WithClient derives from it.
New(h, userId, licenseKey) ==
    WithClient(Append(h, [doFunc |-> NilFunc, userId |-> userId,
                          licenseKey |-> licenseKey]),
               Len(h) + 1, DefaultClient)

\* The Api values a caller holds: every one but New's intermediate.
Usable(h) == {a \in 1..Len(h) : h[a].doFunc # NilFunc}

(***************************************************************************)
(* fetch: one frame per call                                               *)
(***************************************************************************)
Idle ==
    [pc |-> "idle", a |-> 0, ctxArg |-> NilCtx, ctx |-> NilCtx, prefix |-> "", ip |-> "",
     req |-> NoReq, resp |-> NoResp, terr |-> NilErr, buf |-> <<>>,
     deferred |-> 0, sends |-> 0, invoked |-> NilFunc, seenCtx |-> "",
     reads |-> 0, closed |-> 0, response |-> EmptyResponse, err |-> NilErr]

\* A return statement: the results are set, then the deferred
\* resp.Body.Close() runs if it was registered.
Return(st, response, err) ==
    [st EXCEPT !.pc = "Terminal", !.response = response, !.err = err,
               !.closed = @ + st.deferred]

\* A fetch whose buf is a package-level variable, shared by every call.
StoreShared(calls, c, st) ==
    [d \in DOMAIN calls |->
        IF d = c THEN st ELSE [calls[d] EXCEPT !.buf = st.buf]]

\* fetch's variables are locals of the call.
StoreLocal(calls, c, st) == [calls EXCEPT ![c] = st]

\* resp.StatusCode >= 400 && resp.StatusCode < 600
IsAppError(status) == status >= 400 /\ status < 600

\* lines 72-84: build the request, authorize it, default the context
Begin(st, api, a, ctx, prefix, ip) ==
    LET r == NewRequest("GET", prefix \o ip)
        in == [st EXCEPT !.a = a, !.ctxArg = ctx, !.ctx = ctx, !.prefix = prefix,
                         !.ip = ip]
    IN  IF r.err # NilErr
        THEN Return(in, EmptyResponse, r.err)
        ELSE [in EXCEPT !.pc = "Built",
                        !.req = SetBasicAuth(r.req, api.userId, api.licenseKey),
                        !.ctx = IF ctx = NilCtx THEN Background ELSE ctx]

fetch(c, a, ctx, prefix, ip) ==
    /\ call[c].pc = "idle"
    /\ call' = StoreLocal(call, c, Begin(call[c], heap[a], a, ctx, prefix, ip))
    /\ UNCHANGED heap

Country(c, a, ctx, ip) == fetch(c, a, ctx, CountryPrefix, ip)

City(c, a, ctx, ip) == fetch(c, a, ctx, CityPrefix, ip)

Insights(c, a, ctx, ip) == fetch(c, a, ctx, InsightsPrefix, ip)

\* line 85: resp, err := a.doFunc(ctx, req)
Invoked(st, doFunc, out) ==
    [st EXCEPT !.pc = "Sent", !.sends = @ + 1, !.invoked = doFunc,
               !.seenCtx = Observed(doFunc, st.ctx, st.req),
               !.resp = out.resp, !.terr = out.err]

Invoke(c, outs) ==
    /\ call[c].pc = "Built"
    /\ \E out \in outs :
          call' = StoreLocal(call, c, Invoked(call[c], heap[call[c].a].doFunc, out))
    /\ UNCHANGED heap

\* A fetch that wraps the transport's failure before returning it.
OnTransportErrorWrapped(st) ==
    Return(st, EmptyResponse,
           [type |-> "fmt", msg |-> "Error executing request: " \o st.terr.msg])

\* A fetch that sends the request again when the transport fails.
OnTransportErrorRetry(st) == [st EXCEPT !.pc = "Built"]

\* lines 86-88: the transport failed
OnTransportError(st) == Return(st, EmptyResponse, st.terr)

TransportFailed(c) ==
    /\ call[c].pc = "Sent"
    /\ call[c].terr # NilErr
    /\ call' = StoreLocal(call, c, OnTransportError(call[c]))
    /\ UNCHANGED heap

\* A fetch that registers the Close only past the error branch.
ClassifiedDeferOnSuccess(st) ==
    [st EXCEPT !.deferred = IF IsAppError(st.resp.StatusCode) THEN 0 ELSE 1,
               !.pc = IF IsAppError(st.resp.StatusCode)
                      THEN "ApplicationError" ELSE "Success"]

\* lines 89-93: defer resp.Body.Close(), then the status test
Classified(st) ==
    [st EXCEPT !.deferred = 1,
               !.pc = IF IsAppError(st.resp.StatusCode)
                      THEN "ApplicationError" ELSE "Success"]

Classify(c) ==
    /\ call[c].pc = "Sent"
    /\ call[c].terr = NilErr
    /\ call' = StoreLocal(call, c, Classified(call[c]))
    /\ UNCHANGED heap

\* lines 95-99: buf, err := ioutil.ReadAll(resp.Body)
BodyRead(st) ==
    LET st1 == [st EXCEPT !.reads = @ + 1]
    IN  IF st.resp.Body.readErr
        THEN Return(st1, EmptyResponse, IOErr)
        ELSE [st1 EXCEPT !.pc = "BodyRead", !.buf = st.resp.Body.tokens]

ReadAll(c) ==
    /\ call[c].pc = "ApplicationError"
    /\ call' = StoreLocal(call, c, BodyRead(call[c]))
    /\ UNCHANGED heap

\* A fetch whose fallback message leaves the raw body out.
ErrorDecodedNoBody(st) ==
    LET d == Decode(ErrorSchema, NewError(st.resp.StatusCode), st.buf)
    IN  IF d.err # NilErr
        THEN Return(st, EmptyResponse,
                    [d.v EXCEPT !.Err = "Error parsing error response as JSON: "
                                        \o ErrText(d.err)])
        ELSE Return(st, EmptyResponse, d.v)

\* lines 100-111: decode the buffered body as Error
ErrorDecoded(st) ==
    LET respContent == Text(st.buf)
        d == Decode(ErrorSchema, NewError(st.resp.StatusCode), st.buf)
    IN  IF d.err # NilErr
        THEN Return(st, EmptyResponse,
                    [d.v EXCEPT !.Err = "Error parsing error response as JSON: "
                                        \o respContent])
        ELSE Return(st, EmptyResponse, d.v)

DecodeError(c) ==
    /\ call[c].pc = "BodyRead"
    /\ call' = StoreLocal(call, c, ErrorDecoded(call[c]))
    /\ UNCHANGED heap

\* fmt.Errorf("Error parsing response as JSON: %v", err)
Errorf(err) ==
    [type |-> "fmt", msg |-> "Error parsing response as JSON: " \o ErrText(err)]

\* lines 116-121: decode the body stream as Response
ResponseDecoded(st) ==
    LET d == DecodeStream(ResponseSchema, EmptyResponse, st.resp.Body)
        st1 == [st EXCEPT !.reads = @ + 1]
    IN  IF d.err # NilErr
        THEN Return(st1, d.v, Errorf(d.err))
        ELSE Return(st1, d.v, d.err)

DecodeResponse(c) ==
    /\ call[c].pc = "Success"
    /\ call' = StoreLocal(call, c, ResponseDecoded(call[c]))
    /\ UNCHANGED heap

(***************************************************************************)
(* Construction steps                                                      *)
(***************************************************************************)
DoNew(userId, licenseKey) ==
    /\ Len(heap) + 2 <= MaxHeap
    /\ heap' = New(heap, userId, licenseKey)
    /\ UNCHANGED call

DoWithClient(api, client) ==
    /\ Len(heap) + 1 <= MaxHeap
    /\ heap' = WithClient(heap, api, client)
    /\ UNCHANGED call

DoWithClientFunc(api, f) ==
    /\ Len(heap) + 1 <= MaxHeap
    /\ heap' = WithClientFunc(heap, api, CtxFunc(f))
    /\ UNCHANGED call

(***************************************************************************)
(* Specifications                                                          *)
(***************************************************************************)
\* One client, one call, every body: the pipeline.
Init ==
    /\ heap = New(<<>>, "user", "key")
    /\ call = [c \in 1..1 |-> Idle]

Next ==
    \/ \E c \in DOMAIN call, a \in Usable(heap), ctx \in Ctxs, ip \in IPs :
          Country(c, a, ctx, ip)
    \/ \E c \in DOMAIN call, a \in Usable(heap), ctx \in Ctxs, ip \in IPs :
          City(c, a, ctx, ip)
    \/ \E c \in DOMAIN call, a \in Usable(heap), ctx \in Ctxs, ip \in IPs :
          Insights(c, a, ctx, ip)
    \/ \E c \in DOMAIN call : Invoke(c, Outcomes(Bodies))
    \/ \E c \in DOMAIN call : TransportFailed(c)
    \/ \E c \in DOMAIN call : Classify(c)
    \/ \E c \in DOMAIN call : ReadAll(c)
    \/ \E c \in DOMAIN call : DecodeError(c)
    \/ \E c \in DOMAIN call : DecodeResponse(c)

Spec == Init /\ [][Next]_vars

\* Clients are constructed and derived while one call runs.
InitDerive ==
    /\ heap = <<>>
    /\ call = [c \in 1..1 |-> Idle]

NextDerive ==
    \/ \E u \in {"user", "user2"} : DoNew(u, "key")
    \/ \E api \in Usable(heap), client \in HTTPClients : DoWithClient(api, client)
    \/ \E api \in Usable(heap), f \in CtxFuncs : DoWithClientFunc(api, f)
    \/ \E c \in DOMAIN call, a \in Usable(heap), ctx \in Ctxs :
          Country(c, a, ctx, "1.2.3.4")
    \/ \E c \in DOMAIN call, a \in Usable(heap), ctx \in Ctxs :
          City(c, a, ctx, "1.2.3.4")
    \/ \E c \in DOMAIN call, a \in Usable(heap), ctx \in Ctxs :
          Insights(c, a, ctx, "1.2.3.4")
    \/ \E c \in DOMAIN call : Invoke(c, SmallOutcomes)
    \/ \E c \in DOMAIN call : TransportFailed(c)
    \/ \E c \in DOMAIN call : Classify(c)
    \/ \E c \in DOMAIN call : ReadAll(c)
    \/ \E c \in DOMAIN call : DecodeError(c)
    \/ \E c \in DOMAIN call : DecodeResponse(c)

SpecDerive == InitDerive /\ [][NextDerive]_vars

\* Several calls share one client and interleave.
InitConc ==
    /\ heap = New(<<>>, "user", "key")
    /\ call = [c \in 1..NCalls |-> Idle]

NextConc ==
    \/ \E c \in DOMAIN call, a \in Usable(heap) : Country(c, a, NilCtx, "1.2.3.4")
    \/ \E c \in DOMAIN call, a \in Usable(heap) : City(c, a, CallerCtx, "1.2.3.4")
    \/ \E c \in DOMAIN call, a \in Usable(heap) : Insights(c, a, NilCtx, "1.2.3.4")
    \/ \E c \in DOMAIN call : Invoke(c, SmallOutcomes)
    \/ \E c \in DOMAIN call : TransportFailed(c)
    \/ \E c \in DOMAIN call : Classify(c)
    \/ \E c \in DOMAIN call : ReadAll(c)
    \/ \E c \in DOMAIN call : DecodeError(c)
    \/ \E c \in DOMAIN call : DecodeResponse(c)

SpecConc == InitConc /\ [][NextConc]_vars

(***************************************************************************)
(* fetch run alone, start to finish, on one transport outcome              *)
(***************************************************************************)
FetchAlone(api, prefix, ip, out) ==
    LET r == NewRequest("GET", prefix \o ip)
    IN  IF r.err # NilErr THEN [response |-> EmptyResponse, err |-> r.err]
        ELSE IF out.err # NilErr THEN [response |-> EmptyResponse, err |-> out.err]
        ELSE IF IsAppError(out.resp.StatusCode)
        THEN IF out.resp.Body.readErr
             THEN [response |-> EmptyResponse, err |-> IOErr]
             ELSE LET d == Decode(ErrorSchema, NewError(out.resp.StatusCode),
                                  out.resp.Body.tokens)
                  IN  [response |-> EmptyResponse,
                       err |-> IF d.err # NilErr
                               THEN [d.v EXCEPT !.Err =
                                        "Error parsing error response as JSON: "
                                        \o Text(out.resp.Body.tokens)]
                               ELSE d.v]
        ELSE LET d == DecodeStream(ResponseSchema, EmptyResponse, out.resp.Body)
             IN  [response |-> d.v,
                  err |-> IF d.err # NilErr THEN Errorf(d.err) ELSE NilErr]

(***************************************************************************)
(* Properties                                                              *)
(***************************************************************************)
Calls == DOMAIN call

Done(c) == call[c].pc = "Terminal"

\* The transport returned a response, not a failure, to call c.
GotResponse(c) == call[c].sends >= 1 /\ call[c].terr = NilErr

Status(c) == call[c].resp.StatusCode

BodyOf(c) == call[c].resp.Body

InErrorRange(s) == 400 <= s /\ s < 600

\* The value of the last "message" member of the body's leading object.
MessageIn(toks) ==
    LET ms == SelectSeq(Scan(toks).members, LAMBDA t : Lex(t).key = "message")
    IN  IF ms = <<>> THEN "" ELSE Lex(ms[Len(ms)]).val

ErrorBodyDecodes(c) ==
    /\ ~BodyOf(c).readErr
    /\ Decode(ErrorSchema, NewError(0), BodyOf(c).tokens).err = NilErr

ErrorBodyFailsToDecode(c) ==
    /\ ~BodyOf(c).readErr
    /\ Decode(ErrorSchema, NewError(0), BodyOf(c).tokens).err # NilErr

\* C1: every lookup that has returned has exactly one of (Response, error)
\* non-empty: never a populated Response with a non-nil error, never an
\* empty Response with a nil error.
C1_ExactlyOneOfResponseOrError ==
    \A c \in Calls :
        Done(c) => ((call[c].response # EmptyResponse) # (call[c].err # NilErr))

\* C2: a response with status s in [400, 600) whose body decodes as the
\* error schema yields an empty Response and an Error with HTTPStatus = s
\* and the message decoded from the body.
C2_ServiceErrorCarriesStatusAndMessage ==
    \A c \in Calls :
        (Done(c) /\ GotResponse(c) /\ InErrorRange(Status(c)) /\ ErrorBodyDecodes(c))
        => /\ call[c].response = EmptyResponse
           /\ call[c].err.type = "Error"
           /\ call[c].err.HTTPStatus = Status(c)
           /\ call[c].err.Err = MessageIn(BodyOf(c).tokens)

C2_Witness ==
    \E c \in Calls :
        /\ Done(c) /\ GotResponse(c)
        /\ Status(c) = 404
        /\ BodyOf(c) = [tokens |-> Object(<<StatusNum, MsgStr>>), readErr |-> FALSE]
        /\ call[c].err.type = "Error"
        /\ call[c].err.HTTPStatus = 404
        /\ call[c].err.Err = "IP not found"

\* C3, as claimed: a response with status s in [400, 600) whose body does
\* not decode yields an empty Response and an Error with HTTPStatus = s and
\* the message "failed to parse error body as JSON" followed by the raw body.
C3_MessageAsClaimed ==
    \A c \in Calls :
        (Done(c) /\ GotResponse(c) /\ InErrorRange(Status(c)) /\ ErrorBodyFailsToDecode(c))
        => /\ call[c].response = EmptyResponse
           /\ call[c].err.type = "Error"
           /\ call[c].err.HTTPStatus = Status(c)
           /\ call[c].err.Err = "failed to parse error body as JSON"
                                \o Text(BodyOf(c).tokens)

\* C3, amended: the same, with the message the code builds: "Error parsing
\* error response as JSON: " followed by the raw body.
C3_FallbackMessageHasRawBody ==
    \A c \in Calls :
        (Done(c) /\ GotResponse(c) /\ InErrorRange(Status(c)) /\ ErrorBodyFailsToDecode(c))
        => /\ call[c].response = EmptyResponse
           /\ call[c].err.type = "Error"
           /\ call[c].err.HTTPStatus = Status(c)
           /\ call[c].err.Err = "Error parsing error response as JSON: "
                                \o Text(BodyOf(c).tokens)

C3_Witness ==
    \E c \in Calls :
        /\ Done(c) /\ GotResponse(c)
        /\ Status(c) = 500
        /\ BodyOf(c) = [tokens |-> <<Junk>>, readErr |-> FALSE]
        /\ call[c].err.type = "Error"
        /\ call[c].err.HTTPStatus = 500
        /\ call[c].err.Err = "Error parsing error response as JSON: internal failure"

\* C4: a response with a status outside [400, 600) whose body fails to
\* decode as Response yields an error wrapping the decode failure and an
\* empty Response.
C4_DecodeFailureLeavesResponseEmpty ==
    \A c \in Calls :
        (/\ Done(c) /\ GotResponse(c) /\ ~InErrorRange(Status(c))
         /\ DecodeStream(ResponseSchema, EmptyResponse, BodyOf(c)).err # NilErr)
        => /\ call[c].err.type = "fmt"
           /\ call[c].response = EmptyResponse

\* C5: when the transport fails, fetch returns that failure itself and an
\* empty Response, and no body is read, decoded or closed.
C5_TransportFailureVerbatim ==
    \A c \in Calls :
        (Done(c) /\ call[c].sends >= 1 /\ call[c].terr # NilErr)
        => /\ call[c].err = call[c].terr
           /\ call[c].err.type = "transport"
           /\ call[c].response = EmptyResponse
           /\ call[c].reads = 0
           /\ call[c].buf = <<>>

C5_Witness ==
    \E c \in Calls :
        /\ Done(c)
        /\ call[c].sends = 1
        /\ call[c].err = [type |-> "transport", msg |-> "context canceled"]

\* C6: no step changes an Api that exists (its user id, license key and
\* transport stay as constructed, whatever is derived from it), and a
\* lookup invokes the transport of the client it was called on.
C6_DerivingLeavesBaseUnchanged ==
    [][/\ Len(heap') >= Len(heap)
       /\ \A i \in 1..Len(heap) : heap'[i] = heap[i]
       /\ \A c \in Calls :
            call'[c].sends > call[c].sends
            => call'[c].invoked = heap[call[c].a].doFunc]_vars

\* A lookup on a base client ran its default transport although a client
\* with another transport was derived from it.
C6_Witness ==
    \E c \in Calls, b \in 1..Len(heap), d \in 1..Len(heap) :
        /\ b < d
        /\ heap[b] = [doFunc |-> wrap(DefaultClient), userId |-> "user",
                      licenseKey |-> "key"]
        /\ heap[d] = [doFunc |-> CtxFunc("f1"), userId |-> "user",
                      licenseKey |-> "key"]
        /\ call[c].a = b
        /\ call[c].sends = 1
        /\ call[c].invoked = wrap(DefaultClient)

\* C7: on every lookup the function that executes the request observes the
\* caller's context, or the background context when the caller gave none.
C7_CallerContextReachesTransport ==
    \A c \in Calls :
        call[c].sends >= 1
        => call[c].seenCtx = IF call[c].ctxArg = NilCtx THEN Background
                             ELSE call[c].ctxArg

\* C8: calls that share a client and interleave never change the client,
\* and each returns what the same call returns when run alone on the
\* transport outcome it received.
C8_ConcurrentCallsIndependent ==
    /\ [][heap' = heap]_vars
    /\ [](\A c \in Calls :
            Done(c)
            => [response |-> call[c].response, err |-> call[c].err]
               = FetchAlone(heap[call[c].a], call[c].prefix, call[c].ip,
                            [resp |-> call[c].resp, err |-> call[c].terr]))

\* Two calls on the same client have returned, one an Error and one a
\* Response.
C8_Witness ==
    \E c \in Calls, d \in Calls :
        /\ c # d
        /\ Done(c) /\ Done(d)
        /\ call[c].a = call[d].a
        /\ call[c].err.type = "Error"
        /\ call[d].err = NilErr
        /\ call[d].response.Country = "US"

\* C9: a body the transport handed over is closed exactly once by the time
\* fetch has returned, on every return path, and not before; with no body
\* handed over nothing is closed.
C9_BodyClosedExactlyOnce ==
    \A c \in Calls :
        /\ Done(c) => call[c].closed = IF GotResponse(c) THEN 1 ELSE 0
        /\ ~Done(c) => call[c].closed = 0

\* The error-path read of the body failed and the body is closed.
C9_Witness ==
    \E c \in Calls :
        /\ Done(c) /\ GotResponse(c)
        /\ InErrorRange(Status(c))
        /\ BodyOf(c).readErr
        /\ call[c].err = IOErr
        /\ call[c].closed = 1

Transitions ==
    {<<"idle", "Built">>, <<"idle", "Terminal">>, <<"Built", "Sent">>,
     <<"Sent", "Terminal">>, <<"Sent", "ApplicationError">>,
     <<"Sent", "Success">>, <<"ApplicationError", "BodyRead">>,
     <<"ApplicationError", "Terminal">>, <<"BodyRead", "Terminal">>,
     <<"Success", "Terminal">>}

\* C10: a call only moves forward along idle -> Built -> Sent ->
\* {Terminal | ApplicationError -> BodyRead | Success} -> Terminal, the
\* transport is invoked only on Built -> Sent, so at most once, and a call
\* that has returned invoked it once, or never if the request could not be
\* built.
C10_SingleLinearTraversal ==
    /\ [][\A c \in Calls :
            call'[c] # call[c]
            => /\ <<call[c].pc, call'[c].pc>> \in Transitions
               /\ call'[c].sends =
                    IF call[c].pc = "Built" THEN call[c].sends + 1
                    ELSE call[c].sends]_vars
    /\ [](\A c \in Calls :
            /\ call[c].sends <= 1
            /\ Done(c) => call[c].sends =
                            IF call[c].ip \in InvalidEscapes THEN 0 ELSE 1)

\* A transport failure was returned after one invocation.
C10_Witness ==
    \E c \in Calls :
        /\ Done(c)
        /\ call[c].err.type = "transport"
        /\ call[c].sends = 1

====
